---- MODULE Spec2Model ----
(***************************************************************************)
(* A model of src/src/comments.ts of cargo-bloat-action: the report        *)
(* renderer (createSnapshotComment, createComment) and the comment upsert  *)
(* client (createOrUpdateComment) talking to the issue tracker.            *)
(*                                                                         *)
(* Text is a sequence of one-character strings, so that String.includes,   *)
(* split, padding and concatenation are computed character by character.   *)
(* An optional value (number | null, string | null) is <<>> for null and   *)
(* <<v>> for a present v.                                                  *)
(***************************************************************************)
EXTENDS Integers, Sequences, FiniteSets, TLC

VARIABLES
  diff,            \* createSnapshotComment: its argument
  crateTableRows,  \* createSnapshotComment: the rows pushed at lines 81-96
  sizeTableRows,   \* createSnapshotComment: the rows pushed at lines 98-119
  fragment,        \* createSnapshotComment: the returned text
  args,            \* createComment: its arguments
  comment,         \* createComment: the returned text
  phase,           \* renderer: "input" before the call, "done" after it
  comments,        \* issue tracker: the issue's comments, oldest first
  pc,              \* createOrUpdateComment: position of each run
  toolchain,       \* createOrUpdateComment: the toolchain argument of each run
  message,         \* createOrUpdateComment: the message argument of each run
  status,          \* createOrUpdateComment: comments.status of each run
  listed,          \* createOrUpdateComment: comments.data of each run
  failed,          \* core.setFailed: the failure message of each run, or Null
  calls,           \* the issue-tracker calls each run has made, in order
  history,         \* the labels of the runs started so far, in order
  initial          \* the issue's comments before the first run

vars == <<diff, crateTableRows, sizeTableRows, fragment, args, comment, phase,
          comments, pc, toolchain, message, status, listed, failed, calls, history,
          initial>>

rendererVars == <<diff, crateTableRows, sizeTableRows, fragment, args, comment, phase>>
upsertVars ==
  <<comments, pc, toolchain, message, status, listed, failed, calls, history, initial>>

----------------------------------------------------------------------------
(* Values and text helpers                                                 *)

Null == <<>>
Some(v) == <<v>>
\* Number(x) of a number | null: null converts to 0
NumberOf(x) == IF x = Null THEN 0 ELSE x[1]
\* JavaScript truthiness of a number | null: null and 0 are falsy
Truthy(x) == x # Null /\ x[1] # 0

\* the backquote character (the lexer does not accept it inside a string)
BackTick == "BACKTICK"

Min(a, b) == IF a <= b THEN a ELSE b
Abs(n) == IF n < 0 THEN -n ELSE n

\* String.prototype.includes
Includes(text, key) ==
  \E i \in 1..(Len(text) - Len(key) + 1) : SubSeq(text, i, i + Len(key) - 1) = key

\* Array.prototype.join
RECURSIVE Join(_, _)
Join(texts, sep) ==
  IF texts = <<>> THEN <<>>
  ELSE IF Len(texts) = 1 THEN texts[1]
  ELSE texts[1] \o sep \o Join(Tail(texts), sep)

\* String.prototype.split("\n"): the pieces between line breaks, the last included
RECURSIVE SplitLines(_)
SplitLines(text) ==
  IF \A i \in 1..Len(text) : text[i] # "\n" THEN <<text>>
  ELSE LET k == CHOOSE i \in 1..Len(text) :
                  text[i] = "\n" /\ \A j \in 1..(i - 1) : text[j] # "\n"
       IN <<SubSeq(text, 1, k - 1)>> \o SplitLines(SubSeq(text, k + 1, Len(text)))

\* template interpolation of a non-negative integer: its decimal digits
DigitChar(d) == <<"0", "1", "2", "3", "4", "5", "6", "7", "8", "9">>[d + 1]
RECURSIVE Digits(_)
Digits(n) == IF n < 10 THEN <<DigitChar(n)>> ELSE Digits(n \div 10) \o <<DigitChar(n % 10)>>

Spaces(n) == [i \in 1..n |-> " "]

\* String.prototype.replace(/\s+$/, '')
RECURSIVE TrimEnd(_)
TrimEnd(text) ==
  IF text # <<>> /\ text[Len(text)] \in {" ", "\n"}
  THEN TrimEnd(SubSeq(text, 1, Len(text) - 1))
  ELSE text

----------------------------------------------------------------------------
(* filesize: the humanized byte count (base 2, two decimals, JEDEC units)  *)

RECURSIVE Pow1024(_)
Pow1024(e) == IF e = 0 THEN 1 ELSE 1024 * Pow1024(e - 1)

UnitSymbol(e) == << <<"B">>, <<"K", "B">>, <<"M", "B">>, <<"G", "B">> >>[e + 1]

\* floor(log(num) / log(1024)), for the units the model's sizes reach
Exponent(num) == IF num < 1024 THEN 0 ELSE IF num < 1024 * 1024 THEN 1 ELSE 2

\* Number(val.toFixed(2)) printed: the hundredths h as "w", "w.f" or "w.ff"
Fixed2(h) ==
  LET w == h \div 100
      f == h % 100
  IN Digits(w) \o (IF f = 0 THEN <<>>
                   ELSE IF f % 10 = 0 THEN <<".", DigitChar(f \div 10)>>
                   ELSE <<".", DigitChar(f \div 10), DigitChar(f % 10)>>)

FileSize(n) ==
  LET num == Abs(n)
      e == Exponent(num)
      \* val.toFixed(e > 0 ? 2 : 0), in hundredths, rounded half up
      h == IF e = 0 THEN 100 * num ELSE (200 * num + Pow1024(e)) \div (2 * Pow1024(e))
      carry == h = 102400
      hh == IF carry THEN 100 ELSE h
      ee == IF carry THEN e + 1 ELSE e
  IN (IF n < 0 THEN <<"-">> ELSE <<>>) \o Fixed2(hh) \o <<" ">> \o UnitSymbol(ee)

----------------------------------------------------------------------------
(* text-table: pad every cell to its column's width, join the cells of a   *)
(* row with two spaces, trim the row's end, join the rows with line breaks *)

ColumnWidth(rows, c) ==
  LET lens == {Len(rows[r][c]) : r \in 1..Len(rows)}
  IN CHOOSE m \in lens : \A l \in lens : l <= m

TableRow(rows, r) ==
  TrimEnd(Join([c \in 1..Len(rows[r]) |->
                  rows[r][c] \o Spaces(ColumnWidth(rows, c) - Len(rows[r][c]))],
               <<" ", " ">>))

Table(rows) == Join([r \in 1..Len(rows) |-> TableRow(rows, r)], <<"\n">>)

----------------------------------------------------------------------------
(* Literal text of the source                                              *)

\* 'github-actions[bot]'
BotLogin ==
  <<"g","i","t","h","u","b","-","a","c","t","i","o","n","s","[","b","o","t","]">>

\* 'Error fetching comments for MR '
FetchErrorPrefix ==
  <<"E","r","r","o","r"," ","f","e","t","c","h","i","n","g"," ","c","o","m","m","e","n","t",
    "s"," ","f","o","r"," ","M","R"," ">>

\* '- '
RemovedPrefix ==
  <<"-"," ">>

\* '+ '
AddedPrefix ==
  <<"+"," ">>

\* '- Size'
LabelSizeRemoved ==
  <<"-"," ","S","i","z","e">>

\* '+ Size'
LabelSizeAdded ==
  <<"+"," ","S","i","z","e">>

\* 'Size'
LabelSize ==
  <<"S","i","z","e">>

\* '- Text Size'
LabelTextRemoved ==
  <<"-"," ","T","e","x","t"," ","S","i","z","e">>

\* '+ Text Size'
LabelTextAdded ==
  <<"+"," ","T","e","x","t"," ","S","i","z","e">>

\* 'Text size'
LabelText ==
  <<"T","e","x","t"," ","s","i","z","e">>

\* 'Count: '
CountLabel ==
  <<"C","o","u","n","t",":"," ">>

\* '- Count: '
CountRemoved ==
  <<"-"," ","C","o","u","n","t",":"," ">>

\* '+ Count: '
CountAdded ==
  <<"+"," ","C","o","u","n","t",":"," ">>

\* 'No changes to crate sizes'
NoCrateChanges ==
  <<"N","o"," ","c","h","a","n","g","e","s"," ","t","o"," ","c","r","a","t","e"," ","s","i",
    "z","e","s">>

\* '\n<details>\n<summary>Size difference per crate</summary>\n<br />\n\n**Note:** The numbers below are not 100% accurate, use them as a rough estimate.\n\nBACKTICKBACKTICKBACKTICKdiff\n@@ Breakdown per crate @@\n\n'
CrateDetailsHead ==
  <<"\n","<","d","e","t","a","i","l","s",">","\n","<","s","u","m","m","a","r","y",">","S",
    "i","z","e"," ","d","i","f","f","e","r","e","n","c","e"," ","p","e","r"," ","c","r","a",
    "t","e","<","/","s","u","m","m","a","r","y",">","\n","<","b","r"," ","/",">","\n","\n",
    "*","*","N","o","t","e",":","*","*"," ","T","h","e"," ","n","u","m","b","e","r","s"," ",
    "b","e","l","o","w"," ","a","r","e"," ","n","o","t"," ","1","0","0","%"," ","a","c","c",
    "u","r","a","t","e",","," ","u","s","e"," ","t","h","e","m"," ","a","s"," ","a"," ","r",
    "o","u","g","h"," ","e","s","t","i","m","a","t","e",".","\n","\n",BackTick,BackTick,
    BackTick,"d","i","f","f","\n","@","@"," ","B","r","e","a","k","d","o","w","n"," ","p",
    "e","r"," ","c","r","a","t","e"," ","@","@","\n","\n">>

\* '\nBACKTICKBACKTICKBACKTICK\n\n</details>\n'
CrateDetailsTail ==
  <<"\n",BackTick,BackTick,BackTick,"\n","\n","<","/","d","e","t","a","i","l","s",">","\n">>

\* '\n<details>\n<summary>Dependency tree</summary>\n<br />\n\nBACKTICKBACKTICKBACKTICKdiff\n@@ Dependency tree @@\n'
TreeDiffHead ==
  <<"\n","<","d","e","t","a","i","l","s",">","\n","<","s","u","m","m","a","r","y",">","D",
    "e","p","e","n","d","e","n","c","y"," ","t","r","e","e","<","/","s","u","m","m","a","r",
    "y",">","\n","<","b","r"," ","/",">","\n","\n",BackTick,BackTick,BackTick,"d","i","f",
    "f","\n","@","@"," ","D","e","p","e","n","d","e","n","c","y"," ","t","r","e","e"," ",
    "@","@","\n">>

\* '\nBACKTICKBACKTICKBACKTICK\n\n</details>\n'
TreeDiffTail ==
  <<"\n",BackTick,BackTick,BackTick,"\n","\n","<","/","d","e","t","a","i","l","s",">","\n">>

\* '\nBACKTICKBACKTICKBACKTICKdiff\n@@ Size breakdown @@\n\n'
SnapshotHead ==
  <<"\n",BackTick,BackTick,BackTick,"d","i","f","f","\n","@","@"," ","S","i","z","e"," ",
    "b","r","e","a","k","d","o","w","n"," ","@","@","\n","\n">>

\* '\n\nBACKTICKBACKTICKBACKTICK\n\n'
SnapshotAfterSize ==
  <<"\n","\n",BackTick,BackTick,BackTick,"\n","\n">>

\* '([Compare with baseline commit](https://gitea.izzys.place/'
CompareHead ==
  <<"(","[","C","o","m","p","a","r","e"," ","w","i","t","h"," ","b","a","s","e","l","i","n",
    "e"," ","c","o","m","m","i","t","]","(","h","t","t","p","s",":","/","/","g","i","t","e",
    "a",".","i","z","z","y","s",".","p","l","a","c","e","/">>

\* '/compare/'
CompareMid ==
  <<"/","c","o","m","p","a","r","e","/">>

\* '))'
CompareTail ==
  <<")",")">>

\* '<details>\n<summary><strong>'
SectionHead ==
  <<"<","d","e","t","a","i","l","s",">","\n","<","s","u","m","m","a","r","y",">","<","s",
    "t","r","o","n","g",">">>

\* '</strong>'
SectionAfterName ==
  <<"<","/","s","t","r","o","n","g",">">>

\* ' (Changes :warning:)'
WarningSuffix ==
  <<" ","(","C","h","a","n","g","e","s"," ",":","w","a","r","n","i","n","g",":",")">>

\* '</summary>\n<br />\n'
SectionAfterSummary ==
  <<"<","/","s","u","m","m","a","r","y",">","\n","<","b","r"," ","/",">","\n">>

\* '\n</details>'
SectionTail ==
  <<"\n","<","/","d","e","t","a","i","l","s",">">>

\* '\n  :'
CommentHead ==
  <<"\n"," "," ",":">>

\* ': Cargo bloat for toolchain **'
CommentTitle ==
  <<":"," ","C","a","r","g","o"," ","b","l","o","a","t"," ","f","o","r"," ","t","o","o","l",
    "c","h","a","i","n"," ","*","*">>

\* '** :'
CommentAfterToolchain ==
  <<"*","*"," ",":">>

\* ':\n\n  '
CommentAfterMarker ==
  <<":","\n","\n"," "," ">>

\* '\n\n  Commit: '
CommentCommit ==
  <<"\n","\n"," "," ","C","o","m","m","i","t",":"," ">>

\* '\n  '
CommentTail ==
  <<"\n"," "," ">>

----------------------------------------------------------------------------
(* shouldIncludeInDiff of ./utils, which is not among the sources: whether *)
(* a size pair is shown as a diff.  Only a present old value is compared;  *)
(* the pair is a diff when the two values differ.                          *)

shouldIncludeInDiff(newValue, oldValue) ==
  oldValue # Null /\ newValue # oldValue[1]

----------------------------------------------------------------------------
(* createSnapshotComment                                                   *)

\* lines 82-96: the rows one crate entry pushes
CrateRows(d) ==
  IF d.old = Null /\ d.new = Null THEN <<>>
  ELSE IF d.old = d.new THEN << <<d.name, FileSize(NumberOf(d.new))>> >>
  ELSE (IF Truthy(d.old)
        THEN << <<RemovedPrefix \o d.name, FileSize(NumberOf(d.old))>> >> ELSE <<>>)
       \o (IF Truthy(d.new)
           THEN << <<AddedPrefix \o d.name, FileSize(NumberOf(d.new))>> >> ELSE <<>>)

\* lines 81-96: forEach over crateDifference, in order
RECURSIVE CrateTableRows(_)
CrateTableRows(crateDifference) ==
  IF crateDifference = <<>> THEN <<>>
  ELSE CrateRows(Head(crateDifference)) \o CrateTableRows(Tail(crateDifference))

\* a delta without the '+' of a growth
DeltaTextUnsigned(delta) == FileSize(delta)

\* lines 104 and 115: the signed humanized delta
DeltaText(delta) == (IF delta > 0 THEN <<"+">> ELSE <<>>) \o FileSize(delta)

\* lines 99-108
SizeRows(d) ==
  IF shouldIncludeInDiff(d.currentSize, d.oldSize)
  THEN << <<LabelSizeRemoved, FileSize(NumberOf(d.oldSize)), <<>> >>,
          <<LabelSizeAdded, FileSize(d.currentSize), DeltaText(d.sizeDifference)>> >>
  ELSE << <<LabelSize, FileSize(d.currentTextSize), <<>> >> >>

\* lines 110-119
TextSizeRows(d) ==
  IF shouldIncludeInDiff(d.currentTextSize, d.oldTextSize)
  THEN << <<LabelTextRemoved, FileSize(NumberOf(d.oldTextSize)), <<>> >>,
          <<LabelTextAdded, FileSize(d.currentTextSize), DeltaText(d.textDifference)>> >>
  ELSE << <<LabelText, FileSize(d.currentTextSize), <<>> >> >>

\* lines 98-119
SizeTableRows(d) == SizeRows(d) \o TextSizeRows(d)

\* lines 134-139
ChangePrefix(change) ==
  IF change.added THEN "+" ELSE IF change.removed THEN "-" ELSE " "

\* lines 140-141: every line but the piece after the last line break, prefixed
ChangeBlock(change) ==
  LET splitLines == SplitLines(change.value)
  IN Join([i \in 1..(Len(splitLines) - 1) |-> <<ChangePrefix(change), " ">> \o splitLines[i]],
          <<"\n">>) \o <<"\n">>

\* lines 126-145
TreeDiffText(treeDiff) ==
  IF treeDiff.kind = "string" THEN treeDiff.value
  ELSE Join([i \in 1..Len(treeDiff.changes) |-> ChangeBlock(treeDiff.changes[i])], <<>>)
       \o <<"\n">>

\* lines 147-153
DependencyCountDiff(d) ==
  IF d.oldDependenciesCount = d.newDependenciesCount
  THEN CountLabel \o Digits(d.oldDependenciesCount)
  ELSE CountRemoved \o Digits(d.oldDependenciesCount) \o <<"\n">>
       \o CountAdded \o Digits(d.newDependenciesCount)

\* lines 155-172
CrateDetailsText(rows) ==
  IF Len(rows) = 0 THEN NoCrateChanges
  ELSE CrateDetailsHead \o Table(rows) \o CrateDetailsTail

\* lines 173-186
TreeDiffSection(d) ==
  TreeDiffHead \o DependencyCountDiff(d) \o <<"\n", "\n">> \o TreeDiffText(d.treeDiff)
  \o TreeDiffTail

\* lines 78-200
CreateSnapshotComment(d) ==
  SnapshotHead \o Table(SizeTableRows(d)) \o SnapshotAfterSize
  \o CrateDetailsText(CrateTableRows(d.crateDifference)) \o <<"\n", "\n">>
  \o TreeDiffSection(d) \o <<"\n">>

----------------------------------------------------------------------------
(* createComment                                                           *)

\* the workflow context the module imports: the repository and the issue
Context ==
  [owner |-> <<"o", "r", "f">>, repo |-> <<"a", "p", "p">>, number |-> 17]

\* the entries in the alphabetical order of their keys
EmojiListSorted ==
  << [key |-> <<"a", "p", "p", "l", "e">>, emoji |-> <<"a", "p", "p", "l", "e">>],
     [key |-> <<"a", "r", "m">>, emoji |-> <<"m", "u", "s", "c", "l", "e">>],
     [key |-> <<"l", "i", "n", "u", "x">>,
      emoji |-> <<"c", "o", "w", "b", "o", "y", "_", "h", "a", "t", "_", "f", "a", "c", "e">>],
     [key |-> <<"w", "i", "n", "d", "o", "w", "s">>, emoji |-> <<"o", "f", "f", "i", "c", "e">>] >>

\* lines 205-210, in the order Object.entries yields them
EmojiList ==
  << [key |-> <<"a", "p", "p", "l", "e">>, emoji |-> <<"a", "p", "p", "l", "e">>],
     [key |-> <<"w", "i", "n", "d", "o", "w", "s">>, emoji |-> <<"o", "f", "f", "i", "c", "e">>],
     [key |-> <<"a", "r", "m">>, emoji |-> <<"m", "u", "s", "c", "l", "e">>],
     [key |-> <<"l", "i", "n", "u", "x">>,
      emoji |-> <<"c", "o", "w", "b", "o", "y", "_", "h", "a", "t", "_", "f", "a", "c", "e">>] >>

\* line 212
DefaultEmoji == <<"c", "r", "a", "b">>

\* lines 214-219: the first entry whose key the label contains
RECURSIVE FirstEmoji(_, _)
FirstEmoji(label, list) ==
  IF list = <<>> THEN DefaultEmoji
  ELSE IF Includes(label, Head(list).key) THEN Head(list).emoji
  ELSE FirstEmoji(label, Tail(list))

SelectedEmoji(label) == FirstEmoji(label, EmojiList)

\* lines 221-224
CompareCommitText(masterCommit, currentCommit) ==
  IF masterCommit = Null THEN <<>>
  ELSE CompareHead \o Context.owner \o <<"/">> \o Context.repo \o CompareMid
       \o masterCommit[1] \o <<".", ".">> \o currentCommit \o CompareTail

\* lines 232-237
SnapshotSection(snapshot) ==
  SectionHead \o snapshot.packageName \o SectionAfterName
  \o (IF shouldIncludeInDiff(snapshot.currentSize, snapshot.oldSize)
      THEN WarningSuffix ELSE <<>>)
  \o SectionAfterSummary \o CreateSnapshotComment(snapshot) \o SectionTail

\* every snapshot wrapped, a single one too
InnerCommentAlwaysWrapped(snapshots) ==
  Join([i \in 1..Len(snapshots) |-> SnapshotSection(snapshots[i])], <<"\n">>)

\* lines 226-239
InnerComment(snapshots) ==
  IF Len(snapshots) = 1 THEN CreateSnapshotComment(snapshots[1])
  ELSE Join([i \in 1..Len(snapshots) |-> SnapshotSection(snapshots[i])], <<"\n">>)

\* lines 202-249
CreateComment(masterCommit, currentCommit, label, snapshots) ==
  CommentHead \o SelectedEmoji(label) \o CommentTitle \o label \o CommentAfterToolchain
  \o SelectedEmoji(label) \o CommentAfterMarker \o InnerComment(snapshots)
  \o CommentCommit \o currentCommit \o <<" ">>
  \o CompareCommitText(masterCommit, currentCommit) \o CommentTail

----------------------------------------------------------------------------
(* Inputs of the renderer                                                  *)

MaxCrates == 2
MaxSnapshots == 3

Optional(S) == {Null} \cup {Some(v) : v \in S}

SeqsUpTo(S, n) == UNION {[1..k -> S] : k \in 0..n}

TotalSizes == {1000, 2048, 3145728}
TextSizes == {500, 1000, 1536}
CrateSizes == {0, 1000, 2048}
CrateNames == {<<"s", "t", "d">>, <<"s", "e", "r", "d", "e">>}

CrateEntries == [name : CrateNames, old : Optional(CrateSizes), new : Optional(CrateSizes)]

\* an opaque tree diff, or the line-diff segments of the diff package
TreeString == [kind |-> "string", value |-> <<"a", "\n", "b", "\n">>]
TreeChanges ==
  [kind |-> "changes",
   changes |-> << [added |-> FALSE, removed |-> FALSE, value |-> <<"a", "\n">>],
                  [added |-> FALSE, removed |-> TRUE, value |-> <<"b", "\n", "c", "\n">>],
                  [added |-> TRUE, removed |-> FALSE, value |-> <<"d", "\n">>] >>]
TreeCases ==
  { [treeDiff |-> TreeString, oldCount |-> 10, newCount |-> 10],
    [treeDiff |-> TreeChanges, oldCount |-> 10, newCount |-> 12] }

\* a SnapshotDifference; the two deltas are what the snapshot computation
\* supplies: the new value minus the old one (minus 0 when there is none)
Snapshot(name, cur, old, curText, oldText, crates, tree) ==
  [packageName |-> name,
   currentSize |-> cur, oldSize |-> old, sizeDifference |-> cur - NumberOf(old),
   currentTextSize |-> curText, oldTextSize |-> oldText,
   textDifference |-> curText - NumberOf(oldText),
   crateDifference |-> crates, treeDiff |-> tree.treeDiff,
   oldDependenciesCount |-> tree.oldCount, newDependenciesCount |-> tree.newCount]

TreeCase == [treeDiff |-> TreeString, oldCount |-> 10, newCount |-> 10]

OneCrateChanged == << [name |-> <<"s", "t", "d">>, old |-> Some(1000), new |-> Some(2048)] >>

\* inputs that vary the two size pairs
SizeInputs ==
  { Snapshot(<<"c", "l", "i">>, cur, old, curText, oldText, crates, tree) :
      cur \in TotalSizes, old \in Optional(TotalSizes),
      curText \in TextSizes, oldText \in Optional(TextSizes),
      crates \in {<<>>, OneCrateChanged}, tree \in TreeCases }

\* inputs that vary the crate entries
CrateInputs ==
  { Snapshot(<<"c", "l", "i">>, 2048, Some(1000), 1000, Null, crates, tree) :
      crates \in SeqsUpTo(CrateEntries, MaxCrates), tree \in {TreeCase} }

\* the snapshots createComment is given: no old size, an equal one, changed ones
SnapshotPool ==
  { Snapshot(<<"c", "l", "i">>, 2048, Null, 1000, Some(1000), <<>>, TreeCase),
    Snapshot(<<"c", "o", "r", "e">>, 2048, Some(2048), 1000, Some(1000), <<>>, TreeCase),
    Snapshot(<<"c", "l", "i">>, 2048, Some(1000), 1000, Some(1000), <<>>, TreeCase),
    Snapshot(<<"c", "o", "r", "e">>, 3145728, Some(2048), 1000, Some(1000), <<>>, TreeCase) }

\* toolchain labels: every ordered pair of the marker keys and of a part that
\* matches none, and target triples
LabelParts ==
  {EmojiList[i].key : i \in 1..Len(EmojiList)} \cup {<<"w", "a", "s", "m">>}
TargetTriples ==
  { <<"x","8","6","_","6","4","-","a","p","p","l","e","-","d","a","r","w","i","n">>,
    <<"a","r","m","v","7","-","u","n","k","n","o","w","n","-","l","i","n","u","x","-",
      "g","n","u","e","a","b","i","h","f">>,
    <<"s","t","a","b","l","e">> }
Labels == {a \o <<"-">> \o b : a \in LabelParts, b \in LabelParts} \cup TargetTriples

Commits == {<<"4", "f", "e">>, <<"9", "a", "0">>}

\* inputs that vary the label, and inputs that vary the snapshots
CommentInputs ==
  [masterCommit : Optional({<<"b", "7", "1">>}), currentCommit : Commits,
   toolchain : Labels,
   snapshots : {<<s>> : s \in SnapshotPool}]
  \cup
  [masterCommit : Optional({<<"b", "7", "1">>}), currentCommit : {<<"4", "f", "e">>},
   toolchain : TargetTriples,
   snapshots : SeqsUpTo(SnapshotPool, MaxSnapshots) \ {<<>>}]

----------------------------------------------------------------------------
(* The renderer as a state machine: the input is chosen, the call returns  *)

NoDiff == [packageName |-> <<>>]
NoArgs == [toolchain |-> <<>>]
Procs == {1, 2}

UpsertIdle ==
  /\ comments = <<>>
  /\ pc = [r \in Procs |-> "idle"]
  /\ toolchain = [r \in Procs |-> <<>>]
  /\ message = [r \in Procs |-> <<>>]
  /\ status = [r \in Procs |-> 0]
  /\ listed = [r \in Procs |-> <<>>]
  /\ failed = [r \in Procs |-> Null]
  /\ calls = [r \in Procs |-> <<>>]
  /\ history = <<>>
  /\ initial = <<>>

RendererIdle ==
  /\ diff = NoDiff
  /\ crateTableRows = <<>>
  /\ sizeTableRows = <<>>
  /\ fragment = <<>>
  /\ args = NoArgs
  /\ comment = <<>>
  /\ phase = "unused"

SnapshotInit(inputs) ==
  /\ diff \in inputs
  /\ crateTableRows = <<>>
  /\ sizeTableRows = <<>>
  /\ fragment = <<>>
  /\ args = NoArgs
  /\ comment = <<>>
  /\ phase = "input"
  /\ UpsertIdle

\* createSnapshotComment(diff) runs from its first line to its return
CreateSnapshotCommentCall ==
  /\ phase = "input"
  /\ diff # NoDiff
  /\ crateTableRows' = CrateTableRows(diff.crateDifference)
  /\ sizeTableRows' = SizeTableRows(diff)
  /\ fragment' = CreateSnapshotComment(diff)
  /\ phase' = "done"
  /\ UNCHANGED <<diff, args, comment>>
  /\ UNCHANGED upsertVars

InitSizes == SnapshotInit(SizeInputs)
InitCrates == SnapshotInit(CrateInputs)

NextSnapshot == CreateSnapshotCommentCall

SpecSizes == InitSizes /\ [][NextSnapshot]_vars
SpecCrates == InitCrates /\ [][NextSnapshot]_vars

InitComment ==
  /\ diff = NoDiff
  /\ crateTableRows = <<>>
  /\ sizeTableRows = <<>>
  /\ fragment = <<>>
  /\ args \in CommentInputs
  /\ comment = <<>>
  /\ phase = "input"
  /\ UpsertIdle

\* createComment(masterCommit, currentCommit, toolchain, snapshots) runs to its return
CreateCommentCall ==
  /\ phase = "input"
  /\ args # NoArgs
  /\ comment' = CreateComment(args.masterCommit, args.currentCommit, args.toolchain,
                              args.snapshots)
  /\ phase' = "done"
  /\ UNCHANGED <<diff, crateTableRows, sizeTableRows, fragment, args>>
  /\ UNCHANGED upsertVars

NextComment == CreateCommentCall

SpecComment == InitComment /\ [][NextComment]_vars

----------------------------------------------------------------------------
(* Properties of the renderer                                              *)

Rendered == phase = "done" /\ diff # NoDiff
Composed == phase = "done" /\ args # NoArgs

\* the rows of a table whose label is one of `labels`, in table order
RowsLabelled(rows, labels) ==
  LET Labelled(row) == row[1] \in labels
  IN SelectSeq(rows, Labelled)

TotalLabels == {LabelSize, LabelSizeRemoved, LabelSizeAdded}
TextLabels == {LabelText, LabelTextRemoved, LabelTextAdded}

\* C4: when the old value of a size pair is absent, the size table holds
\* exactly one row for that pair, unlabeled, showing the humanized current
\* value of that same pair: currentSize for the total size, currentTextSize
\* for the text size.
C4_AbsentOldShowsCurrentOfSamePair ==
  Rendered =>
    /\ diff.oldSize = Null =>
         RowsLabelled(sizeTableRows, TotalLabels)
           = << <<LabelSize, FileSize(diff.currentSize), <<>> >> >>
    /\ diff.oldTextSize = Null =>
         RowsLabelled(sizeTableRows, TextLabels)
           = << <<LabelText, FileSize(diff.currentTextSize), <<>> >> >>

\* the rows C5 states for one crate entry
ClaimedCrateRows(d) ==
  IF d.old = Null /\ d.new = Null THEN <<>>
  ELSE IF d.old = d.new THEN << <<d.name, FileSize(d.new[1])>> >>
  ELSE (IF d.old # Null THEN << <<RemovedPrefix \o d.name, FileSize(d.old[1])>> >> ELSE <<>>)
       \o (IF d.new # Null THEN << <<AddedPrefix \o d.name, FileSize(d.new[1])>> >> ELSE <<>>)

RECURSIVE ClaimedCrateTable(_)
ClaimedCrateTable(entries) ==
  IF entries = <<>> THEN <<>>
  ELSE ClaimedCrateRows(Head(entries)) \o ClaimedCrateTable(Tail(entries))

\* C5: per crate entry, in input order: no row when old and new are both
\* absent; one unlabeled row when both are present and equal; otherwise a
\* removed row iff old is present (0 included) and then an added row iff new
\* is present.
C5_CrateRowsFollowPresence ==
  Rendered => crateTableRows = ClaimedCrateTable(diff.crateDifference)

\* the rows C6 states for a pair shown as a diff
IsDiffPair(rows, removedLabel, addedLabel, old, new) ==
  /\ Len(rows) = 2
  /\ rows[1][1] = removedLabel /\ rows[1][2] = FileSize(old)
  /\ rows[2][1] = addedLabel /\ rows[2][2] = FileSize(new)
  /\ rows[2][3] # <<>>
  /\ (Head(rows[2][3]) = "+") <=> (new > old)
  /\ rows[2][3] \in {FileSize(new - old), <<"+">> \o FileSize(new - old)}

\* C6: when the old value of a size pair is present and differs from the new
\* one, the table holds for that pair a removed row with the humanized old
\* value and then an added row with the humanized new value and the
\* humanized delta, which starts with '+' exactly when new > old.
C6_ChangedPairShowsRemovedThenAdded ==
  Rendered =>
    /\ (diff.oldSize # Null /\ diff.oldSize[1] # diff.currentSize) =>
         IsDiffPair(RowsLabelled(sizeTableRows, TotalLabels), LabelSizeRemoved,
                    LabelSizeAdded, diff.oldSize[1], diff.currentSize)
    /\ (diff.oldTextSize # Null /\ diff.oldTextSize[1] # diff.currentTextSize) =>
         IsDiffPair(RowsLabelled(sizeTableRows, TextLabels), LabelTextRemoved,
                    LabelTextAdded, diff.oldTextSize[1], diff.currentTextSize)

\* a total size that grew and a text size that shrank, both rendered as diffs
C6_Witness ==
  /\ Rendered
  /\ diff.oldSize # Null /\ diff.oldSize[1] < diff.currentSize
  /\ diff.oldTextSize # Null /\ diff.oldTextSize[1] > diff.currentTextSize
  /\ Len(sizeTableRows) = 4
  /\ Head(sizeTableRows[2][3]) = "+"
  /\ Head(sizeTableRows[4][3]) = "-"

\* where `key` occurs in `text`, in increasing order
RECURSIVE SortedSeq(_)
SortedSeq(S) ==
  IF S = {} THEN <<>>
  ELSE LET m == CHOOSE x \in S : \A y \in S : x <= y
       IN <<m>> \o SortedSeq(S \ {m})

Occurrences(text, key) ==
  SortedSeq({i \in 1..(Len(text) - Len(key) + 1) : SubSeq(text, i, i + Len(key) - 1) = key})

StartsWithAt(text, i, key) == SubSeq(text, i, i + Len(key) - 1) = key

\* what C7 states an enclosing section holds after its opening
ClaimedSection(snapshot) ==
  snapshot.packageName \o SectionAfterName
  \o (IF shouldIncludeInDiff(snapshot.currentSize, snapshot.oldSize)
      THEN WarningSuffix ELSE <<>>)
  \o SectionAfterSummary \o CreateSnapshotComment(snapshot) \o SectionTail

\* C7: one snapshot is inlined with no enclosing collapsible section; N > 1
\* snapshots give exactly N enclosing sections, in input order, each titled
\* with its snapshot's packageName and carrying the warning suffix iff that
\* snapshot's total size is meaningfully different.
C7_SectionsPerSnapshot ==
  Composed =>
    LET snaps == args.snapshots
        opens == Occurrences(comment, SectionHead)
    IN IF Len(snaps) = 1
       THEN /\ opens = <<>>
            /\ Includes(comment, CommentAfterMarker \o CreateSnapshotComment(snaps[1])
                                 \o CommentCommit)
       ELSE /\ Len(opens) = Len(snaps)
            /\ \A i \in 1..Len(snaps) :
                 StartsWithAt(comment, opens[i] + Len(SectionHead), ClaimedSection(snaps[i]))

\* three snapshots, some with the warning and some without
C7_Witness ==
  /\ Composed
  /\ Len(args.snapshots) = 3
  /\ args.snapshots[1].packageName # args.snapshots[2].packageName
  /\ shouldIncludeInDiff(args.snapshots[1].currentSize, args.snapshots[1].oldSize)
  /\ ~shouldIncludeInDiff(args.snapshots[2].currentSize, args.snapshots[2].oldSize)
  /\ Len(Occurrences(comment, SectionHead)) = 3
  /\ Len(Occurrences(comment, WarningSuffix)) \in {1, 2}

\* the marker C8 states for a label
ClaimedMarker(label) ==
  IF Includes(label, <<"a", "p", "p", "l", "e">>) THEN <<"a", "p", "p", "l", "e">>
  ELSE IF Includes(label, <<"w", "i", "n", "d", "o", "w", "s">>)
    THEN <<"o", "f", "f", "i", "c", "e">>
  ELSE IF Includes(label, <<"a", "r", "m">>) THEN <<"m", "u", "s", "c", "l", "e">>
  ELSE IF Includes(label, <<"l", "i", "n", "u", "x">>)
    THEN <<"c", "o", "w", "b", "o", "y", "_", "h", "a", "t", "_", "f", "a", "c", "e">>
  ELSE <<"c", "r", "a", "b">>

\* C8: the marker is that of the first of 'apple', 'windows', 'arm', 'linux'
\* the label contains, the default marker when it contains none, and the
\* same marker stands on both sides of the toolchain name.
C8_FirstMatchingMarker ==
  Composed =>
    StartsWithAt(comment, 1,
                 CommentHead \o ClaimedMarker(args.toolchain) \o CommentTitle
                 \o args.toolchain \o CommentAfterToolchain
                 \o ClaimedMarker(args.toolchain) \o CommentAfterMarker)

\* a label containing both 'linux' and 'arm', 'linux' first, gets the 'arm' marker
C8_Witness ==
  /\ Composed
  /\ args.toolchain = <<"l", "i", "n", "u", "x", "-", "a", "r", "m">>
  /\ Len(Occurrences(comment, <<":", "m", "u", "s", "c", "l", "e", ":">>)) = 2

----------------------------------------------------------------------------
(* The comment upsert client and the issue tracker                         *)

\* line 50: per_page
PerPage == 100
\* line 53: the status of a successful listing
StatusOk == 200
\* the statuses a listing returns
ListStatuses == {StatusOk, 304}

\* runs made one after the other, and runs made by two racing workflows
MaxRuns == 3
MaxRacingRuns == 2

\* the labels the runs are started with
UpsertToolchains ==
  { <<"s", "t", "a", "b", "l", "e">>,
    <<"n", "i", "g", "h", "t", "l", "y">>,
    <<"n", "i", "g", "h", "t", "l", "y", "-", "a", "r", "m">> }

ReportSnapshot ==
  Snapshot(<<"c", "l", "i">>, 2048, Some(1000), 1000, Some(1000), <<>>, TreeCase)

\* the message a run is given: what createComment returns for its label
ReportMessage(label, commit) ==
  CreateComment(Some(<<"b", "7", "1">>), commit, label, <<ReportSnapshot>>)

\* comments of the issue before the first run: a person's comment that names
\* two labels, another workflow's bot comment, older reports, and filler
Person == <<"a", "l", "i", "c", "e">>
PersonComment ==
  [login |-> Person,
   body |-> <<"s","t","a","b","l","e"," ","a","n","d"," ","n","i","g","h","t","l","y",
              " ","f","a","i","l">>]
OtherBotComment ==
  [login |-> BotLogin, body |-> <<"C", "o", "v", "e", "r", "a", "g", "e", " ", "8", "0", "%">>]
FillerComment == [login |-> Person, body |-> <<"L", "G", "T", "M">>]
OldReport(label) ==
  [login |-> BotLogin, body |-> ReportMessage(label, <<"0", "0", "1">>)]
OlderReport(label) ==
  [login |-> BotLogin, body |-> ReportMessage(label, <<"0", "0", "0">>)]

Fillers(n) == [i \in 1..n |-> FillerComment]
FillerCounts == {0, PerPage - 1, PerPage}

OldestComments ==
  { <<>>,
    <<PersonComment, OtherBotComment>>,
    <<PersonComment, OlderReport(<<"s", "t", "a", "b", "l", "e">>),
      OldReport(<<"s", "t", "a", "b", "l", "e">>)>> }
NewestComments == { <<>>, <<OldReport(<<"n", "i", "g", "h", "t", "l", "y">>)>> }

\* the issue tracker numbers the comments of an issue in the order they are made
Numbered(cs) ==
  [i \in 1..Len(cs) |-> [id |-> i, login |-> cs[i].login, body |-> cs[i].body]]

InitialComments ==
  { Numbered(old \o Fillers(n) \o new) :
      old \in OldestComments, n \in FillerCounts, new \in NewestComments }

InitUpsert(issues) ==
  /\ RendererIdle
  /\ comments \in issues
  /\ initial = comments
  /\ pc = [r \in Procs |-> "idle"]
  /\ toolchain = [r \in Procs |-> <<>>]
  /\ message = [r \in Procs |-> <<>>]
  /\ status = [r \in Procs |-> 0]
  /\ listed = [r \in Procs |-> <<>>]
  /\ failed = [r \in Procs |-> Null]
  /\ calls = [r \in Procs |-> <<>>]
  /\ history = <<>>

Running(r) == pc[r] \in {"list", "write"}

\* the caller composes the message for a label and calls createOrUpdateComment
\* (lines 39-45: up to the listing request)
StartRun(r, limit) ==
  /\ pc[r] \in {"idle", "done"}
  /\ Len(history) < limit
  /\ \E label \in UpsertToolchains, commit \in Commits :
       /\ toolchain' = [toolchain EXCEPT ![r] = label]
       /\ message' = [message EXCEPT ![r] = ReportMessage(label, commit)]
       /\ history' = Append(history, label)
  /\ pc' = [pc EXCEPT ![r] = "list"]
  /\ status' = [status EXCEPT ![r] = 0]
  /\ listed' = [listed EXCEPT ![r] = <<>>]
  /\ failed' = [failed EXCEPT ![r] = Null]
  /\ calls' = [calls EXCEPT ![r] = <<>>]
  /\ UNCHANGED <<comments, initial>>
  /\ UNCHANGED rendererVars

\* a run starts only when no other run is under way
StartAlone(r) ==
  /\ \A q \in Procs : ~Running(q)
  /\ StartRun(r, MaxRuns)

\* a run starts whatever the other workflow is doing
Start(r) == StartRun(r, MaxRacingRuns)

\* a page one comment short
FirstPageShort(cs) == SubSeq(cs, 1, Min(PerPage - 1, Len(cs)))

\* issues.listComments with per_page 100: the first page, oldest first
FirstPage(cs) == SubSeq(cs, 1, Min(PerPage, Len(cs)))

\* a listing that lets the run go on whatever its status
AnyStatusSucceeds(st) == TRUE

\* line 53
ListSucceeded(st) == st = StatusOk

\* line 55
FetchError == FetchErrorPrefix \o Digits(Context.number)

\* lines 46-60: the listing returns; a status other than 200 fails the run
ListComments(r) ==
  /\ pc[r] = "list"
  /\ \E st \in ListStatuses :
       /\ status' = [status EXCEPT ![r] = st]
       /\ IF ListSucceeded(st)
          THEN /\ listed' = [listed EXCEPT ![r] = FirstPage(comments)]
               /\ pc' = [pc EXCEPT ![r] = "write"]
               /\ UNCHANGED failed
          ELSE /\ failed' = [failed EXCEPT ![r] = Some(FetchError)]
               /\ pc' = [pc EXCEPT ![r] = "done"]
               /\ UNCHANGED listed
  /\ calls' = [calls EXCEPT ![r] = Append(calls[r], "list")]
  /\ UNCHANGED <<comments, toolchain, message, history, initial>>
  /\ UNCHANGED rendererVars

\* lines 62-65
OurComments(data, label) ==
  LET Ours(v) == v.login = BotLogin /\ Includes(v.body, label)
  IN SelectSeq(data, Ours)

\* the last of our comments
LastId(ourComments) == ourComments[Len(ourComments)].id

\* line 72
FirstId(ourComments) == ourComments[1].id

\* issues.createComment as the workflow's token: a new comment, the newest
Created(cs, body) ==
  Append(cs, [id |-> Len(cs) + 1, login |-> BotLogin, body |-> body])

\* issues.updateComment: the comment with that id gets the body
Updated(cs, id, body) ==
  [i \in 1..Len(cs) |-> IF cs[i].id = id THEN [cs[i] EXCEPT !.body = body] ELSE cs[i]]

\* a create that replaces a comment of the label made in the meantime
CreatedUnlessPresent(cs, body, label) ==
  IF OurComments(cs, label) = <<>> THEN Created(cs, body)
  ELSE Updated(cs, FirstId(OurComments(cs, label)), body)

\* lines 15-23, as called at line 69
PostedNewComment(cs, body, label) == Created(cs, body)

\* lines 67-69 and 15-23: no comment of ours was listed, a new one is posted
PostNewComment(r) ==
  /\ pc[r] = "write"
  /\ Len(OurComments(listed[r], toolchain[r])) = 0
  /\ comments' = PostedNewComment(comments, message[r], toolchain[r])
  /\ calls' = [calls EXCEPT ![r] = Append(calls[r], "create")]
  /\ pc' = [pc EXCEPT ![r] = "done"]
  /\ UNCHANGED <<toolchain, message, status, listed, failed, history, initial>>
  /\ UNCHANGED rendererVars

\* lines 70-75 and 25-37: the first of our listed comments is updated
UpdateComment(r) ==
  /\ pc[r] = "write"
  /\ Len(OurComments(listed[r], toolchain[r])) # 0
  /\ comments' = Updated(comments, FirstId(OurComments(listed[r], toolchain[r])), message[r])
  /\ calls' = [calls EXCEPT ![r] = Append(calls[r], "update")]
  /\ pc' = [pc EXCEPT ![r] = "done"]
  /\ UNCHANGED <<toolchain, message, status, listed, failed, history, initial>>
  /\ UNCHANGED rendererVars

\* runs one after the other
Init == InitUpsert(InitialComments)
Next ==
  \/ StartAlone(1)
  \/ ListComments(1)
  \/ PostNewComment(1)
  \/ UpdateComment(1)
Spec == Init /\ [][Next]_vars

\* two workflow runs whose calls interleave
RacingIssues ==
  { Numbered(old \o new) : old \in OldestComments, new \in NewestComments }
InitRace == InitUpsert(RacingIssues)
NextRace ==
  \E r \in Procs :
    \/ Start(r)
    \/ ListComments(r)
    \/ PostNewComment(r)
    \/ UpdateComment(r)
SpecRace == InitRace /\ [][NextRace]_vars

----------------------------------------------------------------------------
(* Properties of the upsert client                                         *)

IsOurs(c, label) == c.login = BotLogin /\ Includes(c.body, label)

\* positions of the bot's comments whose body contains the label
MatchingIn(cs, label) == {i \in 1..Len(cs) : IsOurs(cs[i], label)}

Least(S) == CHOOSE x \in S : \A y \in S : x <= y

\* the step in which run r makes its write call
Writes(r) == pc[r] = "write" /\ pc'[r] = "done"

\* C1: a run whose listing succeeded makes exactly one write call, after the
\* list call: when none of the listed comments (the first page) is the bot's
\* with the label in its body, one comment with body = message is created
\* and no comment changes; otherwise the earliest listed matching comment
\* gets message as its body, nothing is created and every other comment,
\* later matching ones too, stays as it was.  No other step of a run changes
\* the comments.
C1_CreateOrUpdateFirstMatch ==
  [][/\ (\A q \in Procs : ~Writes(q)) => comments' = comments
     /\ \A r \in Procs :
       /\ Writes(r) =>
            LET found == MatchingIn(listed[r], toolchain[r])
            IN /\ status[r] = StatusOk
               /\ calls[r] = <<"list">>
               /\ Len(listed[r]) <= PerPage
               /\ IF found = {}
                  THEN /\ calls'[r] = <<"list", "create">>
                       /\ Len(comments') = Len(comments) + 1
                       /\ SubSeq(comments', 1, Len(comments)) = comments
                       /\ comments'[Len(comments')].body = message[r]
                       /\ comments'[Len(comments')].login = BotLogin
                  ELSE /\ calls'[r] = <<"list", "update">>
                       /\ Len(comments') = Len(comments)
                       /\ \A i \in 1..Len(comments) :
                            comments'[i] =
                              IF comments[i].id = listed[r][Least(found)].id
                              THEN [comments[i] EXCEPT !.body = message[r]]
                              ELSE comments[i]
       /\ (pc[r] = "done" /\ status[r] = StatusOk) => Len(calls[r]) = 2
  ]_vars

\* a run has updated the older of two matching comments and left the newer
C1_Witness ==
  \E r \in Procs :
    /\ pc[r] = "done"
    /\ calls[r] = <<"list", "update">>
    /\ Cardinality(MatchingIn(listed[r], toolchain[r])) = 2
    /\ LET found == MatchingIn(comments, toolchain[r])
       IN /\ Cardinality(found) = 2
          /\ comments[Least(found)].body = message[r]
          /\ \E i \in found :
               i <= Len(initial) /\ comments[i].body # message[r] /\ comments[i] = initial[i]

\* C3: a listing whose status is not 200 fails the run with a message that
\* names the issue number and ends it: the run makes no create and no update
\* call, and the comments stay as they are.
C3_FailedListingPostsNothing ==
  [][\A r \in Procs :
       /\ (pc[r] = "list" /\ pc'[r] # "list" /\ status'[r] # StatusOk) =>
            /\ pc'[r] = "done"
            /\ comments' = comments
            /\ calls'[r] = <<"list">>
            /\ failed'[r] = Some(FetchErrorPrefix \o <<"1", "7">>)
            /\ Context.number = 17
       /\ (pc[r] = "done" /\ status[r] # StatusOk) => calls[r] = <<"list">>
  ]_vars

\* a run failed by its listing, on an issue that has comments
C3_Witness ==
  \E r \in Procs :
    /\ pc[r] = "done"
    /\ status[r] = 304
    /\ failed[r] # Null
    /\ calls[r] = <<"list">>
    /\ comments = initial
    /\ comments # <<>>

\* C9: two runs for the same label whose calls interleave can both list
\* before either creates; both then see no matching comment and both create
\* one, which leaves two comments of the bot with the label in their bodies.
\* As an invariant: two ended runs for the same label that were handed the
\* same listing with no matching comment in it have both created a comment,
\* and at least two comments of the bot contain the label.
C9_BothSeeNoneBothCreate ==
  \A r, q \in Procs :
    ( /\ r # q
      /\ pc[r] = "done" /\ pc[q] = "done"
      /\ status[r] = StatusOk /\ status[q] = StatusOk
      /\ toolchain[r] = toolchain[q]
      /\ listed[r] = listed[q]
      /\ MatchingIn(listed[r], toolchain[r]) = {} )
    => /\ calls[r] = <<"list", "create">> /\ calls[q] = <<"list", "create">>
       /\ Cardinality(MatchingIn(comments, toolchain[r])) >= 2

\* from an issue with no matching comment, both runs listed the same
\* comments, and two matching comments are there in the end
C9_Witness ==
  /\ pc[1] = "done" /\ pc[2] = "done"
  /\ Len(history) = 2
  /\ toolchain[1] = toolchain[2]
  /\ MatchingIn(initial, toolchain[1]) = {}
  /\ listed[1] = initial /\ listed[2] = initial
  /\ calls[1] = <<"list", "create">> /\ calls[2] = <<"list", "create">>
  /\ Cardinality(MatchingIn(comments, toolchain[1])) = 2

\* what C2 concludes for a label: one matching comment at most, and after a
\* run that listed successfully it holds that run's message
AtMostOneLatest(label) ==
  LET found == MatchingIn(comments, label)
  IN /\ Cardinality(found) <= 1
     /\ status[1] = StatusOk =>
          /\ found # {}
          /\ \A i \in found : comments[i].body = message[1]

\* runs made one after the other (by workflow 1), all for the label, on an
\* issue that had no comment of the bot containing it, the last one ended
RepeatedRuns(label) ==
  /\ MatchingIn(initial, label) = {}
  /\ pc[1] = "done"
  /\ \A k \in 1..Len(history) : history[k] = label

\* C2 as stated: after repeated runs one after the other for the same label,
\* on an issue with any number of other comments, at most one comment of the
\* bot contains the label, and its body is the latest run's message.
C2_NoDuplicateAcrossRuns ==
  \A label \in UpsertToolchains : RepeatedRuns(label) => AtMostOneLatest(label)

\* C2, amended: the same, on an issue that had fewer than 100 comments (one
\* page) before the first run.
C2_NoDuplicateWithinFirstPage ==
  \A label \in UpsertToolchains :
    (RepeatedRuns(label) /\ Len(initial) < PerPage) => AtMostOneLatest(label)

\* three runs on an issue that had 99 other comments: the comment the first
\* run created is the 100th, and the last run has updated it
C2_Witness ==
  \E label \in UpsertToolchains :
    /\ RepeatedRuns(label)
    /\ Len(initial) = PerPage - 1
    /\ Len(history) = 3
    /\ calls[1] = <<"list", "update">>
    /\ MatchingIn(comments, label) = {PerPage}
    /\ comments[PerPage].body = message[1]

\* whether a body is a report createComment composed for the label
IsReportFor(body, label) ==
  StartsWithAt(body, 1, CommentHead \o SelectedEmoji(label) \o CommentTitle \o label
                        \o CommentAfterToolchain)

\* C10: with runs made one after the other for distinct labels, a run for
\* one label never replaces the body of a comment published by a run for
\* another label.
C10_LabelsKeepTheirOwnComment ==
  [][\A r \in Procs : \A i \in 1..Len(comments) :
       (Writes(r) /\ comments'[i] # comments[i]) =>
         ~\E other \in UpsertToolchains \ {toolchain[r]} : IsReportFor(comments[i].body, other)
  ]_vars

====
